---- MODULE Spec2Model ----
(***************************************************************************)
(* Verification model of the machine monitor backend:                      *)
(*   - status_config.py : StatusCriteria / StatusDeterminer (classifier)   *)
(*   - main.py          : SAMPLE_MACHINES store, ConnectionManager,        *)
(*                        update_machine_status, websocket_endpoint,       *)
(*                        simulate_machine_updates                         *)
(*   - api_client.py    : MachineWebSocketClient (the feed client)         *)
(*   - main_specification.py, database.py : the portal's ingest endpoint,  *)
(*                        machines table and cleanup task                  *)
(* Readings with one decimal (temperature, pressure, disk_volume) are      *)
(* kept in tenths, so 80.0 is 800.  Times are whole minutes.               *)
(***************************************************************************)
EXTENDS Integers, Sequences, FiniteSets, TLC

\* ------------------------------------------------------------------ bounds
\* distance of the sampled readings and ages from each threshold
Delta == 1
\* number of units kept in SAMPLE_MACHINES
MaxUnits == 2
\* number of websocket handles that may ever connect
MaxHandles == 2
\* last value of the wall clock
MaxTime == 1
\* number of broadcast calls (events) in one run
MaxEvents == 4
\* number of update_machine_status requests that are accepted in one run
MaxUpdates == 2
\* number of update_machine_status requests that may be in flight together
MaxRequests == 1
\* largest max_reconnect_attempts tried besides the default
MaxAttemptLimit == 2
\* number of successful websockets.connect calls in one run
MaxSessions == 2
\* number of messages the feed delivers in one run
MaxMessages == 3
\* number of send_message calls in one run
MaxSends == 1
\* last value of the portal's clock
MaxPortalTime == 7
\* number of samples posted for one machine
MaxSamples == 2
\* last value of the portal's clock when whole hours pass
MaxHistoryTime == 120
\* number of rows one machine has in each history table when it is queried
MaxHistoryRows == 3
\* number of metrics one update_criteria call names
MaxNamed == 2
\* nested connect() calls the coroutine stack holds before RecursionError
MaxDepth == 12
\* send_data_to_api calls of the collector
MaxPosts == 5

\* --------------------------------------------------------------- constants
NoneVal == -1

Metrics == {"temperature", "pressure", "disk_volume", "speed"}

Severities == {"grey", "black", "red", "yellow", "green"}

\* StatusCriteria.__init__ : the default criteria
DefaultCriteria ==
    [temperature |-> [warning_threshold |-> 600, error_threshold |-> 800],
     pressure    |-> [warning_threshold |-> 30,  error_threshold |-> 50],
     disk_volume |-> [warning_threshold |-> 850, error_threshold |-> 950],
     speed       |-> [warning_threshold_low |-> 500, warning_threshold_high |-> 2000,
                      error_threshold_low |-> 200,   error_threshold_high |-> 2500],
     connection  |-> [timeout_minutes |-> 5, offline_threshold_minutes |-> 30]]

VARIABLES
    criteria,            \* StatusCriteria.criteria
    system_data,         \* the argument of determine_status: [last_seen, data]
    clock,               \* datetime.now() of the classifier call, in minutes
    verdict,             \* the value determine_status returned, "none" before the call
    now,                 \* wall clock of the main.py application
    machines,            \* SAMPLE_MACHINES: unit -> [status, last_seen, data]
    active_connections,  \* ConnectionManager.active_connections
    health,              \* per websocket: "new", "ok", "dead" or "stalled"
    endpoint,            \* per websocket: position of websocket_endpoint
    tasks,               \* per coroutine: pc, event in flight, iterator index, awaited handle
    events,              \* every message handed to broadcast, in call order
    received,            \* per websocket: the events whose send_text succeeded
    read,                \* the last answer of GET /api/machines[/{id}]
    client,              \* MachineWebSocketClient: its attributes and the position of connect()
    feed,                \* the feed server's side: calls made, messages delivered, stop request
    db,                  \* database.py: the machines table with each machine's history rows
    utcnow,              \* datetime.utcnow() of the portal (main_specification.py), in minutes
    cleanup,             \* position of the cleanup_old_data task
    published,           \* messages update_system_data handed to manager.broadcast
    db_call,             \* the last DatabaseManager or portal call: arguments, result, table before it
    update_call,         \* the last update_criteria call: argument, result, criteria before it
    collector            \* machine_data_collector.py: run_continuous and its last sample

classifierVars == <<criteria, system_data, clock, verdict>>
appVars == <<now, machines, active_connections, health, endpoint, tasks, events, received,
            read>>
clientVars == <<client, feed>>
portalVars == <<db, utcnow, cleanup, published, db_call>>
vars == <<criteria, system_data, clock, verdict, now, machines, active_connections,
          health, endpoint, tasks, events, received, read, client, feed, db, utcnow, cleanup,
          published, db_call, update_call, collector>>

\* ============================================================ status_config
\* dict.get(key, 0)
Get(data, key) == IF key \in DOMAIN data THEN data[key] ELSE 0

\* StatusDeterminer._is_connected_to_soson
IsConnectedToSoson(sd, t, crit) ==
    IF sd.last_seen = NoneVal THEN FALSE
    ELSE t - sd.last_seen <= crit.connection.timeout_minutes

\* StatusDeterminer._is_system_accessible
IsSystemAccessible(sd, t, crit) ==
    IF sd.last_seen = NoneVal THEN FALSE
    ELSE t - sd.last_seen <= crit.connection.offline_threshold_minutes

\* _has_errors with the temperature comparison written `>=`
HasErrorsInclusive(sd, crit) ==
    \/ Get(sd.data, "temperature") >= crit.temperature.error_threshold
    \/ Get(sd.data, "pressure") > crit.pressure.error_threshold
    \/ Get(sd.data, "disk_volume") > crit.disk_volume.error_threshold
    \/ Get(sd.data, "speed") < crit.speed.error_threshold_low
    \/ Get(sd.data, "speed") > crit.speed.error_threshold_high

\* StatusDeterminer._has_errors
HasErrors(sd, crit) ==
    \/ Get(sd.data, "temperature") > crit.temperature.error_threshold
    \/ Get(sd.data, "pressure") > crit.pressure.error_threshold
    \/ Get(sd.data, "disk_volume") > crit.disk_volume.error_threshold
    \/ Get(sd.data, "speed") < crit.speed.error_threshold_low
    \/ Get(sd.data, "speed") > crit.speed.error_threshold_high

\* StatusDeterminer._has_warnings
HasWarnings(sd, crit) ==
    \/ Get(sd.data, "temperature") > crit.temperature.warning_threshold
    \/ Get(sd.data, "pressure") > crit.pressure.warning_threshold
    \/ Get(sd.data, "disk_volume") > crit.disk_volume.warning_threshold
    \/ Get(sd.data, "speed") < crit.speed.warning_threshold_low
    \/ Get(sd.data, "speed") > crit.speed.warning_threshold_high

\* criteria[m][k] exists: the subscript raises KeyError otherwise
HasBound(crit, m, k) == m \in DOMAIN crit /\ k \in DOMAIN crit[m]

\* the comparisons of _has_errors and of _has_warnings in the order in which
\* they are evaluated; `or` and the early returns stop at the first that holds
ErrorChecks ==
    <<[metric |-> "temperature", bound |-> "error_threshold", below |-> FALSE],
      [metric |-> "pressure", bound |-> "error_threshold", below |-> FALSE],
      [metric |-> "disk_volume", bound |-> "error_threshold", below |-> FALSE],
      [metric |-> "speed", bound |-> "error_threshold_low", below |-> TRUE],
      [metric |-> "speed", bound |-> "error_threshold_high", below |-> FALSE]>>

WarningChecks ==
    <<[metric |-> "temperature", bound |-> "warning_threshold", below |-> FALSE],
      [metric |-> "pressure", bound |-> "warning_threshold", below |-> FALSE],
      [metric |-> "disk_volume", bound |-> "warning_threshold", below |-> FALSE],
      [metric |-> "speed", bound |-> "warning_threshold_low", below |-> TRUE],
      [metric |-> "speed", bound |-> "warning_threshold_high", below |-> FALSE]>>

\* whether one of the comparisons raises before any of them decides
RECURSIVE ScanRaises(_, _, _)
ScanRaises(checks, data, crit) ==
    IF checks = <<>> THEN FALSE
    ELSE LET c == Head(checks)
         IN  IF ~HasBound(crit, c.metric, c.bound) THEN TRUE
             ELSE IF c.below /\ Get(data, c.metric) < crit[c.metric][c.bound] THEN FALSE
             ELSE IF ~c.below /\ Get(data, c.metric) > crit[c.metric][c.bound] THEN FALSE
             ELSE ScanRaises(Tail(checks), data, crit)

\* a last_seen that is truthy and cannot be subtracted from datetime.now():
\* a str, or a datetime with a time zone
Incomparable == -3

\* the body of the try block raises: a missing threshold key (KeyError) or the
\* subtraction of last_seen (TypeError), met before a return statement is
AttemptRaises(sd, t, crit) ==
    IF sd.last_seen = NoneVal THEN FALSE
    ELSE IF ~HasBound(crit, "connection", "timeout_minutes") THEN TRUE
    ELSE IF sd.last_seen = Incomparable THEN TRUE
    ELSE IF ~IsConnectedToSoson(sd, t, crit) THEN FALSE
    ELSE IF ~HasBound(crit, "connection", "offline_threshold_minutes") THEN TRUE
    ELSE IF ~IsSystemAccessible(sd, t, crit) THEN FALSE
    ELSE IF ScanRaises(ErrorChecks, sd.data, crit) THEN TRUE
    ELSE IF HasErrors(sd, crit) THEN FALSE
    ELSE ScanRaises(WarningChecks, sd.data, crit)

\* the try block of determine_status
Attempt(sd, t, crit) ==
    IF AttemptRaises(sd, t, crit) THEN "raise"
    ELSE IF ~IsConnectedToSoson(sd, t, crit) THEN "grey"
    ELSE IF ~IsSystemAccessible(sd, t, crit) THEN "black"
    ELSE IF HasErrors(sd, crit) THEN "red"
    ELSE IF HasWarnings(sd, crit) THEN "yellow"
    ELSE "green"

\* determine_status without its except clause
determine_status_uncaught(sd, t, crit) == Attempt(sd, t, crit)

\* StatusDeterminer.determine_status: the try block, and "grey" from the
\* except clause when it raises
determine_status(sd, t, crit) ==
    IF Attempt(sd, t, crit) = "raise" THEN "grey" ELSE Attempt(sd, t, crit)

\* ------------------------------------------------ the samples that are tried
Around(b) == {b} \cup {b - d : d \in 1..Delta} \cup {b + d : d \in 1..Delta}

\* the bounds of one metric in a criteria table
BoundsOf(crit, m) ==
    IF m = "speed"
    THEN {crit.speed.warning_threshold_low, crit.speed.warning_threshold_high,
          crit.speed.error_threshold_low, crit.speed.error_threshold_high}
    ELSE {crit[m].warning_threshold, crit[m].error_threshold}

\* readings of a metric: 0, for speed a reading inside all its bounds, and the
\* neighbourhood of every bound; Absent marks a metric left out of the snapshot
Absent == -2

ReadingsOf(crit, m) ==
    {0} \cup (IF m = "speed" THEN {1000} ELSE {}) \cup UNION {Around(b) : b \in BoundsOf(crit, m)}

\* the snapshot dict for a choice of one reading or Absent per metric
SnapshotOf(r) == [m \in {k \in Metrics : r[k] # Absent} |-> r[m]]

Snapshots(crit) ==
    {SnapshotOf(r) : r \in [temperature : ReadingsOf(crit, "temperature") \cup {Absent},
                            pressure    : ReadingsOf(crit, "pressure") \cup {Absent},
                            disk_volume : ReadingsOf(crit, "disk_volume") \cup {Absent},
                            speed       : ReadingsOf(crit, "speed") \cup {Absent}]}

\* ages of last_seen: fresh, and the neighbourhood of both connection limits
Ages(crit) ==
    {0} \cup Around(crit.connection.timeout_minutes)
        \cup Around(crit.connection.offline_threshold_minutes)

ClassifierInit ==
    /\ criteria = DefaultCriteria
    /\ clock = DefaultCriteria.connection.offline_threshold_minutes + Delta
    /\ \E d \in Snapshots(DefaultCriteria) :
       \E ls \in {NoneVal} \cup {clock - a : a \in Ages(DefaultCriteria)} :
          system_data = [last_seen |-> ls, data |-> d]
    /\ verdict = "none"

\* get_system_status(system_data): one call of determine_status
GetSystemStatus ==
    /\ verdict = "none"
    /\ verdict' = determine_status(system_data, clock, criteria)
    /\ UNCHANGED <<criteria, system_data, clock>>
    /\ UNCHANGED <<appVars, clientVars, portalVars, update_call, collector>>

\* samples for the classifier's error paths: last_seen missing, not
\* subtractable or fresh, with healthy readings or an overheated unit
HealthyData == [temperature |-> 350, pressure |-> 15, disk_volume |-> 600, speed |-> 1000]

FaultSamples ==
    {[last_seen |-> ls, data |-> d] :
        ls \in {NoneVal, Incomparable, clock},
        d \in {HealthyData, [HealthyData EXCEPT !.temperature = 900]}}

\* get_system_status(sd) for a sample the caller passes
GetSystemStatusOf(sd) ==
    /\ system_data' = sd
    /\ verdict' = determine_status(sd, clock, criteria)
    /\ UNCHANGED <<criteria, clock>>
    /\ UNCHANGED <<appVars, clientVars, portalVars, update_call, collector>>

\* ================================================================= main.py
Units == 1..MaxUnits
UnknownUnit == 0
Handles == 1..MaxHandles
SimTask == 0
Requests == 1..MaxRequests
Tasks == 0..MaxRequests

AlertStatuses == {"yellow", "red", "black", "grey"}

SeqRange(q) == {q[i] : i \in 1..Len(q)}

\* dict.update that has not stored the new values (yet)
MergeKeepsOld(d1, d2) ==
    [k \in DOMAIN d1 \cup DOMAIN d2 |-> IF k \in DOMAIN d1 THEN d1[k] ELSE d2[k]]

\* dict.update: the keys of d2 replace or extend those of d1
Merge(d1, d2) ==
    [k \in DOMAIN d1 \cup DOMAIN d2 |-> IF k \in DOMAIN d2 THEN d2[k] ELSE d1[k]]

\* list.remove(x) for an x that is in the list: drops its first occurrence
RemoveFirst(q, x) ==
    LET i == CHOOSE j \in 1..Len(q) : q[j] = x /\ \A k \in 1..(j - 1) : q[k] # x
    IN  [k \in 1..(Len(q) - 1) |-> IF k < i THEN q[k] ELSE q[k + 1]]

\* AUTOMATED_SYSTEM_4000 / SAMPLE_MACHINES: the table as the module builds it
\* (asimco_china, dashiang_2, ironcast_mexico; every further unit like the first)
InitialMachine(u) ==
    CASE u = 2 -> [status |-> "warning", last_seen |-> 0,
                   data |-> [temperature |-> 482, pressure |-> 26, speed |-> 1200,
                             disk_volume |-> 457]]
      [] u = 3 -> [status |-> "error", last_seen |-> 0,
                   data |-> [temperature |-> 753, pressure |-> 47, speed |-> 500,
                             disk_volume |-> 152]]
      [] OTHER -> [status |-> "online", last_seen |-> 0,
                   data |-> [temperature |-> 421, pressure |-> 22, speed |-> 1450,
                             disk_volume |-> 785]]

\* the random readings simulate_machine_updates draws for a status: one draw
\* from each range (black and grey are all zero)
SimDraw(st) ==
    CASE st = "green" ->
           {[temperature |-> 350, pressure |-> 15, speed |-> 1000, disk_volume |-> 600]}
      [] st = "yellow" ->
           {[temperature |-> 650, pressure |-> 35, speed |-> 500, disk_volume |-> 200]}
      [] st = "red" ->
           {[temperature |-> 850, pressure |-> 55, speed |-> 200, disk_volume |-> 50]}
      [] OTHER ->
           {[temperature |-> 0, pressure |-> 0, speed |-> 0, disk_volume |-> 0]}

\* the request bodies that are tried (MachineUpdate.status, .data, .timestamp)
UpdateStatuses == {"green", "red"}
UpdateData == {[temperature |-> 900]}
UpdateTimes == 0..MaxTime

IdleTask == [pc |-> "idle", ev |-> 0, idx |-> 0, conn |-> 0, snap |-> <<>>,
             dead |-> {}, todo |-> <<>>, branch |-> "none", resp |-> "none"]

\* no GET request has been answered yet
NoRead == [op |-> "none", resp |-> "none", unit |-> UnknownUnit, table |-> <<>>, seen |-> 0]

AppInit ==
    /\ now = 0
    /\ machines = [u \in Units |-> InitialMachine(u)]
    /\ active_connections = <<>>
    /\ health = [h \in Handles |-> "new"]
    /\ endpoint = [h \in Handles |-> "none"]
    /\ tasks = [t \in Tasks |-> IF t = SimTask THEN [IdleTask EXCEPT !.pc = "start"]
                                ELSE IdleTask]
    /\ events = <<>>
    /\ received = [h \in Handles |-> <<>>]
    /\ read = NoRead

\* no coroutine is between two suspension points: the simulation task has made
\* its first step (startup_event creates it before any request is served) and
\* is not in the middle of its recovery loop
Quiescent == tasks[SimTask].pc \notin {"start", "ret"}

\* ------------------------------------------- ConnectionManager.broadcast
\* one step of `for connection in self.active_connections`: the list iterator
\* holds the number of items it has handed out and reads the list as it is now
IterStep(act, idx) ==
    IF idx < Len(act) THEN [pc |-> "send", idx |-> idx + 1, conn |-> act[idx + 1]]
    ELSE [pc |-> "ret", idx |-> idx, conn |-> 0]

\* where a coroutine goes when its broadcast call has returned
AfterBroadcast(t, todo, branch) ==
    IF t # SimTask THEN "idle"
    ELSE IF branch = "alert" THEN "sleep15"
    ELSE IF todo = <<>> THEN "sleep30"
    ELSE "ret"

\* a task record advanced by one iterator step over the list act
Advance(rec, t, act) ==
    LET s == IterStep(act, rec.idx)
    IN  [rec EXCEPT !.pc = IF s.pc = "ret" THEN AfterBroadcast(t, rec.todo, rec.branch)
                           ELSE "send",
                    !.idx = s.idx,
                    !.conn = s.conn,
                    !.resp = IF s.pc = "ret" /\ t # SimTask THEN "200" ELSE @]

\* the call manager.broadcast(events[e]) up to its first suspension point; snap
\* and dead keep the list and the closed handles as they are when it is called
Begin(rec, t, e) ==
    Advance([rec EXCEPT !.ev = e, !.idx = 0, !.snap = active_connections,
                        !.dead = {h \in Handles : health[h] = "dead"}], t,
            active_connections)

\* `await connection.send_text(message)` returns: the handle has the message
SendReturns(t) ==
    /\ Quiescent
    /\ tasks[t].pc = "send"
    /\ health[tasks[t].conn] = "ok"
    /\ received' = [received EXCEPT ![tasks[t].conn] = Append(@, tasks[t].ev)]
    /\ tasks' = [tasks EXCEPT ![t] = Advance(@, t, active_connections)]
    /\ UNCHANGED <<now, machines, active_connections, health, endpoint, events>>
    /\ UNCHANGED <<classifierVars, clientVars, portalVars, update_call, read, collector>>

\* `await connection.send_text(message)` raises: the except branch removes the
\* handle; list.remove raises ValueError when the handle is no longer listed,
\* and that exception leaves broadcast
SendRaises(t) ==
    /\ Quiescent
    /\ tasks[t].pc = "send"
    /\ health[tasks[t].conn] = "dead"
    /\ IF tasks[t].conn \in SeqRange(active_connections)
       THEN /\ active_connections' = RemoveFirst(active_connections, tasks[t].conn)
            /\ tasks' = [tasks EXCEPT ![t] = Advance(@, t, active_connections')]
       ELSE /\ active_connections' = active_connections
            /\ tasks' = [tasks EXCEPT ![t] =
                            [@ EXCEPT !.pc = IF t = SimTask THEN "crashed" ELSE "idle",
                                      !.resp = IF t = SimTask THEN @ ELSE "500"]]
    /\ UNCHANGED <<now, machines, health, endpoint, events, received>>
    /\ UNCHANGED <<classifierVars, clientVars, portalVars, update_call, read, collector>>

\* ------------------------------------------------------ websocket clients
\* ConnectionManager.connect, called by websocket_endpoint
Connect(h) ==
    /\ Quiescent
    /\ health[h] = "new"
    /\ health' = [health EXCEPT ![h] = "ok"]
    /\ endpoint' = [endpoint EXCEPT ![h] = "open"]
    /\ active_connections' = Append(active_connections, h)
    /\ UNCHANGED <<now, machines, tasks, events, received>>
    /\ UNCHANGED <<classifierVars, clientVars, portalVars, update_call, read, collector>>

\* the peer closes its socket: every later send_text on the handle raises
PeerCloses(h) ==
    /\ Quiescent
    /\ health[h] = "ok"
    /\ health' = [health EXCEPT ![h] = "dead"]
    /\ UNCHANGED <<now, machines, active_connections, endpoint, tasks, events, received>>
    /\ UNCHANGED <<classifierVars, clientVars, portalVars, update_call, read, collector>>

\* the peer stops draining its socket: a send_text on the handle never completes
PeerStalls(h) ==
    /\ Quiescent
    /\ health[h] = "ok"
    /\ health' = [health EXCEPT ![h] = "stalled"]
    /\ UNCHANGED <<now, machines, active_connections, endpoint, tasks, events, received>>
    /\ UNCHANGED <<classifierVars, clientVars, portalVars, update_call, read, collector>>

\* websocket_endpoint: receive_text raises WebSocketDisconnect and the handler
\* calls ConnectionManager.disconnect, whose list.remove raises ValueError for
\* a handle that is no longer listed
EndpointDisconnect(h) ==
    /\ Quiescent
    /\ endpoint[h] = "open"
    /\ health[h] = "dead"
    /\ IF h \in SeqRange(active_connections)
       THEN /\ active_connections' = RemoveFirst(active_connections, h)
            /\ endpoint' = [endpoint EXCEPT ![h] = "closed"]
       ELSE /\ active_connections' = active_connections
            /\ endpoint' = [endpoint EXCEPT ![h] = "error"]
    /\ UNCHANGED <<now, machines, health, tasks, events, received>>
    /\ UNCHANGED <<classifierVars, clientVars, portalVars, update_call, read, collector>>

\* ------------------------------------------------- update_machine_status
\* the number of messages published by request handlers
Updates(evs) == Cardinality({i \in 1..Len(evs) : evs[i].by # SimTask})

\* POST /api/machines/{machine_id}/status for a listed machine: the three
\* assignments, then the broadcast up to its first suspension point
UpdateMachineStatus(t, u, st, d, ts) ==
    /\ Quiescent
    /\ tasks[t].pc = "idle"
    /\ Len(events) < MaxEvents
    /\ Updates(events) < MaxUpdates
    /\ machines' = [machines EXCEPT ![u] =
                       [status |-> st, last_seen |-> ts, data |-> Merge(@.data, d)]]
    /\ events' = Append(events, [machine_id |-> u, status |-> st, data |-> d,
                                 timestamp |-> ts, by |-> t])
    /\ tasks' = [tasks EXCEPT ![t] = Begin(@, t, Len(events) + 1)]
    /\ UNCHANGED <<now, active_connections, health, endpoint, received>>
    /\ UNCHANGED <<classifierVars, clientVars, portalVars, update_call, read, collector>>

\* the same request for a machine_id that is not in SAMPLE_MACHINES: 404
UpdateMachineNotFound(t) ==
    /\ Quiescent
    /\ tasks[t].pc = "idle"
    /\ UnknownUnit \notin Units
    /\ tasks' = [tasks EXCEPT ![t] = [@ EXCEPT !.resp = "404"]]
    /\ UNCHANGED <<now, machines, active_connections, health, endpoint, events, received>>
    /\ UNCHANGED <<classifierVars, clientVars, portalVars, update_call, read, collector>>

\* next((m for m in SAMPLE_MACHINES if m["id"] == machine_id), None) finds a machine
Listed(id) == id \in Units

\* GET /api/machines/{machine_id} : the handler has no await; it returns the
\* machine's record as it is, or 404
GetMachine(id) ==
    /\ Quiescent
    /\ read' = IF Listed(id)
               THEN [op |-> "get_machine", resp |-> "200", unit |-> id,
                     table |-> [u \in {id} |-> machines[u]], seen |-> Len(events)]
               ELSE [op |-> "get_machine", resp |-> "404", unit |-> id, table |-> <<>>,
                     seen |-> Len(events)]
    /\ UNCHANGED <<now, machines, active_connections, health, endpoint, tasks, events,
                   received>>
    /\ UNCHANGED <<classifierVars, clientVars, portalVars, update_call, collector>>

\* GET /api/machines : the whole table as it is
GetMachines ==
    /\ Quiescent
    /\ read' = [op |-> "get_machines", resp |-> "200", unit |-> UnknownUnit,
                table |-> machines, seen |-> Len(events)]
    /\ UNCHANGED <<now, machines, active_connections, health, endpoint, tasks, events,
                   received>>
    /\ UNCHANGED <<classifierVars, clientVars, portalVars, update_call, collector>>

\* ----------------------------------------------- simulate_machine_updates
\* lines 764-770: every machine is set to green with fresh readings
SimReset ==
    /\ tasks[SimTask].pc = "start"
    /\ \E d \in [Units -> SimDraw("green")] :
          machines' = [u \in Units |->
                          [machines[u] EXCEPT !.status = "green",
                                              !.data = Merge(@, d[u])]]
    /\ tasks' = [tasks EXCEPT ![SimTask] = [@ EXCEPT !.pc = "sleep15"]]
    /\ UNCHANGED <<now, active_connections, health, endpoint, events, received>>
    /\ UNCHANGED <<classifierVars, clientVars, portalVars, update_call, read, collector>>

\* an alert_machines filter that matches no machine
AlertFromNone(m, u) == <<>>

\* alert_machines: the machines in alert, in table order
RECURSIVE AlertFrom(_, _)
AlertFrom(m, u) ==
    IF u > MaxUnits THEN <<>>
    ELSE IF m[u].status \in AlertStatuses THEN <<u>> \o AlertFrom(m, u + 1)
    ELSE AlertFrom(m, u + 1)

\* one pass of `for machine in alert_machines`: the machine is set to green
\* and the recovery message is broadcast
Recover(u, rest, d) ==
    /\ Len(events) < MaxEvents
    /\ machines' = [machines EXCEPT ![u] =
                       [status |-> "green", last_seen |-> now, data |-> Merge(@.data, d)]]
    /\ events' = Append(events, [machine_id |-> u, status |-> "green",
                                 data |-> machines'[u].data, timestamp |-> now, by |-> SimTask])
    /\ tasks' = [tasks EXCEPT ![SimTask] =
                    Begin([@ EXCEPT !.todo = rest, !.branch = "recover"], SimTask,
                          Len(events) + 1)]
    /\ UNCHANGED <<now, active_connections, health, endpoint, received>>
    /\ UNCHANGED <<classifierVars, clientVars, portalVars, update_call, read, collector>>

\* the 15 second sleep ends and some machine is in alert: first pass of the loop
SimWakeRecover ==
    /\ tasks[SimTask].pc = "sleep15"
    /\ AlertFrom(machines, 1) # <<>>
    /\ \E d \in SimDraw("green") :
          Recover(Head(AlertFrom(machines, 1)), Tail(AlertFrom(machines, 1)), d)

\* a recovery broadcast has returned and alert_machines has more entries
SimRecoverNext ==
    /\ tasks[SimTask].pc = "ret"
    /\ \E d \in SimDraw("green") :
          Recover(Head(tasks[SimTask].todo), Tail(tasks[SimTask].todo), d)

\* the 30 second sleep after the recoveries ends: back to the top of the loop
SimSleep30Done ==
    /\ Quiescent
    /\ tasks[SimTask].pc = "sleep30"
    /\ tasks' = [tasks EXCEPT ![SimTask] = [@ EXCEPT !.pc = "sleep15"]]
    /\ UNCHANGED <<now, machines, active_connections, health, endpoint, events, received>>
    /\ UNCHANGED <<classifierVars, clientVars, portalVars, update_call, read, collector>>

\* the 15 second sleep ends and no machine is in alert: one random machine is
\* put into a random alert status and the alert message is broadcast
SimWakeAlert ==
    /\ tasks[SimTask].pc = "sleep15"
    /\ AlertFrom(machines, 1) = <<>>
    /\ Len(events) < MaxEvents
    /\ \E u \in Units : \E st \in AlertStatuses : \E d \in SimDraw(st) :
          /\ machines' = [machines EXCEPT ![u] =
                             [status |-> st, last_seen |-> now, data |-> Merge(@.data, d)]]
          /\ events' = Append(events, [machine_id |-> u, status |-> st,
                                       data |-> machines'[u].data, timestamp |-> now, by |-> SimTask])
    /\ tasks' = [tasks EXCEPT ![SimTask] =
                    Begin([@ EXCEPT !.todo = <<>>, !.branch = "alert"], SimTask,
                          Len(events) + 1)]
    /\ UNCHANGED <<now, active_connections, health, endpoint, received>>
    /\ UNCHANGED <<classifierVars, clientVars, portalVars, update_call, read, collector>>

\* datetime.now() moves on
Tick ==
    /\ Quiescent
    /\ now < MaxTime
    /\ now' = now + 1
    /\ UNCHANGED <<machines, active_connections, health, endpoint, tasks, events, received>>
    /\ UNCHANGED <<classifierVars, clientVars, portalVars, update_call, read, collector>>

\* =========================================================== api_client.py
\* MachineWebSocketClient.__init__ : self.max_reconnect_attempts
DefaultMaxReconnectAttempts == 10

\* the values max_reconnect_attempts is set to: a few small ones and the default
AttemptLimits == 0..MaxAttemptLimit \cup {DefaultMaxReconnectAttempts}

\* what one text frame does in listen: json.loads accepts it and the callback
\* returns, json.loads raises JSONDecodeError, or the callback raises
MessageKinds == {"ok", "malformed", "handler_raises"}

\* MachineWebSocketClient.__init__ ; pc "init" is before connect() is called
NewClient(n) ==
    [pc |-> "init", websocket |-> "none", running |-> FALSE,
     reconnect_attempts |-> 0, max_reconnect_attempts |-> n]

NewFeed == [calls |-> 0, fails |-> 0, sessions |-> 0, stopped |-> FALSE,
            arrived |-> <<>>, forwarded |-> <<>>, sends |-> 0, losses |-> 0]

\* the client as constructed
ClientInit ==
    /\ client = NewClient(DefaultMaxReconnectAttempts)
    /\ feed = NewFeed

\* the client with max_reconnect_attempts set to one of the limits
ClientConfigured ==
    /\ \E n \in AttemptLimits : client = NewClient(n)
    /\ feed = NewFeed

\* handle_reconnect : the test of the attempt counter
MayReconnectInclusive(c) == c.reconnect_attempts <= c.max_reconnect_attempts

MayReconnect(c) == c.reconnect_attempts < c.max_reconnect_attempts

\* handle_reconnect up to its await: count the attempt and sleep, or log
\* "Max reconnection attempts reached" and return
HandleReconnect(c) ==
    IF MayReconnect(c)
    THEN [c EXCEPT !.reconnect_attempts = @ + 1, !.pc = "backoff"]
    ELSE [c EXCEPT !.pc = "failed"]

\* listen : the two inner except clauses, which log the error and go on with
\* the next message
SkipMessageReconnects(c) == HandleReconnect([c EXCEPT !.running = FALSE])

SkipMessage(c) == c

\* listen : the body of the async for loop for one message; the callback is
\* called with every message json.loads accepts
Forward(log, msg) ==
    IF msg.kind = "malformed" THEN log ELSE Append(log, msg.id)

\* connect() is called: it suspends in websockets.connect
ClientConnect ==
    /\ client.pc = "init"
    /\ client' = [client EXCEPT !.pc = "connecting"]
    /\ feed' = [feed EXCEPT !.calls = @ + 1]
    /\ UNCHANGED <<classifierVars, appVars, portalVars, update_call, collector>>

\* websockets.connect returns a socket: running is set, the counter is reset
\* and listen suspends in the async for
ConnectSucceeds ==
    /\ client.pc = "connecting"
    /\ feed.sessions < MaxSessions
    /\ client' = [client EXCEPT !.websocket = "open", !.running = TRUE,
                                !.reconnect_attempts = 0, !.pc = "listening"]
    /\ feed' = [feed EXCEPT !.sessions = @ + 1, !.fails = 0]
    /\ UNCHANGED <<classifierVars, appVars, portalVars, update_call, collector>>

\* websockets.connect raises: the except clause of connect calls handle_reconnect
ConnectFails ==
    /\ client.pc = "connecting"
    /\ client' = HandleReconnect(client)
    /\ feed' = [feed EXCEPT !.fails = @ + 1]
    /\ UNCHANGED <<classifierVars, appVars, portalVars, update_call, collector>>

\* connect awaits handle_reconnect, which awaits connect: every attempt after
\* the first runs nested in all the earlier ones, none of which has returned,
\* so the n calls made so far are n levels of the coroutine stack. The
\* interpreter raises RecursionError past its limit (MaxDepth levels here).
StackFull(n) == n >= MaxDepth

\* asyncio.sleep(reconnect_interval) returns and handle_reconnect calls
\* connect; a RecursionError raised in the nested call is caught by its except
\* clause, raised again by the logging or the sleep under that clause, and
\* leaves every enclosing connect(): pc "crashed"
BackoffDone ==
    /\ client.pc = "backoff"
    /\ client' = [client EXCEPT !.pc = IF StackFull(feed.calls) THEN "crashed"
                                       ELSE "connecting"]
    /\ feed' = [feed EXCEPT !.calls = @ + 1]
    /\ UNCHANGED <<classifierVars, appVars, portalVars, update_call, collector>>

\* the async for of listen yields one message
Receive(kind) ==
    /\ client.pc = "listening"
    /\ client.websocket = "open"
    /\ Len(feed.arrived) < MaxMessages
    /\ LET msg == [id |-> Len(feed.arrived) + 1, kind |-> kind]
       IN  /\ feed' = [feed EXCEPT !.arrived = Append(@, msg),
                                   !.forwarded = Forward(@, msg)]
           /\ client' = IF kind = "ok" THEN client ELSE SkipMessage(client)
    /\ UNCHANGED <<classifierVars, appVars, portalVars, update_call, collector>>

\* the async for raises (the connection is lost): evaluating the clause
\* "except websockets.exceptions.ConnectionClosed" raises NameError, because
\* websockets is imported inside connect only; the NameError leaves listen with
\* running untouched and the except clause of connect calls handle_reconnect
StreamError ==
    /\ client.pc = "listening"
    /\ client.websocket = "open"
    /\ client' = HandleReconnect([client EXCEPT !.websocket = "closed"])
    /\ feed' = [feed EXCEPT !.losses = @ + 1]
    /\ UNCHANGED <<classifierVars, appVars, portalVars, update_call, collector>>

\* the async for ends without an exception (the peer closed normally, or
\* close() closed the socket): listen returns and so does connect
StreamEnds ==
    /\ client.pc = "listening"
    /\ client' = [client EXCEPT !.websocket = "closed", !.pc = "returned"]
    /\ feed' = [feed EXCEPT !.losses = @ + 1]
    /\ UNCHANGED <<classifierVars, appVars, portalVars, update_call, collector>>

\* send_message : skipped unless websocket and running; a send that raises is
\* logged, nothing else
SendMessage(raises) ==
    /\ feed.sends < MaxSends
    /\ (client.websocket = "closed" /\ client.running) => raises
    /\ feed' = [feed EXCEPT !.sends = @ + 1,
                            !.losses = IF client.websocket # "none" /\ client.running /\ raises
                                       THEN @ + 1 ELSE @]
    /\ UNCHANGED client
    /\ UNCHANGED <<classifierVars, appVars, portalVars, update_call, collector>>

\* close : running = False, and the socket, if there is one, is closed
Close ==
    /\ ~feed.stopped
    /\ client' = [client EXCEPT !.running = FALSE,
                                !.websocket = IF @ = "none" THEN "none" ELSE "closed"]
    /\ feed' = [feed EXCEPT !.stopped = TRUE]
    /\ UNCHANGED <<classifierVars, appVars, portalVars, update_call, collector>>

\* ============================================ main_specification.py, database.py
\* Machine.status : the column default, which add_machine uses as well
DefaultStatus == "offline"

\* the static metadata (name, location, coordinates) a caller registers
Names == {"plant_a", "plant_b"}

\* the statuses DatabaseManager.update_machine_status is called with
DbStatuses == {"green", "red"}

\* its data argument: None, an empty dict, a dict with readings
DbData ==
    {[given |-> FALSE, items |-> <<>>],
     [given |-> TRUE,  items |-> <<>>],
     [given |-> TRUE,  items |-> [temperature |-> 900]]}

\* `if data:` : a dict that is given and not empty
Truthy(d) == d.given /\ DOMAIN d.items # {}

\* the hours argument of the history queries
HistoryWindows == {1, 2}

MinutesPerHour == 60

\* a row of the machines table that does not exist yet
NoMachine == [registered |-> FALSE, name |-> "none", status |-> "none",
              last_seen |-> NoneVal, rows |-> <<>>, history |-> <<>>]

\* Machine(...) as add_machine builds it: status from
\* machine_data.get("status", "offline"), last_seen from the column default
NewMachine(nm, t) ==
    [registered |-> TRUE, name |-> nm, status |-> DefaultStatus, last_seen |-> t,
     rows |-> <<>>, history |-> <<>>]

EmptyTable == [u \in Units |-> NoMachine]

\* no DatabaseManager method or portal endpoint has been called yet
NoCall == [op |-> "none", unit |-> 0, name |-> "none", status |-> "none",
           data |-> [given |-> FALSE, items |-> <<>>], hours |-> 0, at |-> 0,
           result |-> "none", resp |-> "none", out |-> <<>>,
           before |-> EmptyTable, sent |-> 0]

PortalInit ==
    /\ db = EmptyTable
    /\ utcnow = 0
    /\ cleanup = "sleeping"
    /\ published = <<>>
    /\ db_call = NoCall

\* db.add(machine); db.commit() with the row replacing one of the same id
InsertMachineReplaces(table, u, nm, t) == [table EXCEPT ![u] = NewMachine(nm, t)]

\* db.add(machine); db.commit(): Machine.id is the primary key, so the commit
\* raises for an id that is in the table and the except clause rolls back
InsertMachine(table, u, nm, t) ==
    IF table[u].registered THEN table ELSE [table EXCEPT ![u] = NewMachine(nm, t)]

\* DatabaseManager.add_machine : True after the commit, False after the rollback
AddMachine(u, nm) ==
    /\ db' = InsertMachine(db, u, nm, utcnow)
    /\ db_call' = [NoCall EXCEPT !.op = "add_machine", !.unit = u, !.name = nm,
                                 !.at = utcnow, !.before = db,
                                 !.result = IF db[u].registered THEN "False" ELSE "True"]
    /\ UNCHANGED <<utcnow, cleanup, published>>
    /\ UNCHANGED <<classifierVars, appVars, clientVars, update_call, collector>>

\* update_machine_status with a history row for every call
StoreStatusAlways(m, st, d, t) ==
    [m EXCEPT !.status = st, !.last_seen = t,
              !.rows = IF Truthy(d) THEN Append(@, [timestamp |-> t, data |-> d.items])
                       ELSE @,
              !.history = Append(@, [status |-> st, reason |-> "status changed",
                                     from |-> m.status, timestamp |-> t])]

\* DatabaseManager.update_machine_status for a machine that exists: the status,
\* last_seen, a machine_data row when data is given, and a history row
\* "Status changed from X to Y" when the status differs
StoreStatus(m, st, d, t) ==
    [m EXCEPT !.status = st, !.last_seen = t,
              !.rows = IF Truthy(d) THEN Append(@, [timestamp |-> t, data |-> d.items])
                       ELSE @,
              !.history = IF m.status # st
                          THEN Append(@, [status |-> st, reason |-> "status changed",
                                          from |-> m.status, timestamp |-> t])
                          ELSE @]

\* an except clause that leaves the session's changes in place
RollbackKeeps(before, after) == after

\* db.rollback() : the table as it was when the session was opened
Rollback(before, after) == before

\* `if not machine` taken for a row that exists
RegisteredAlways(table, u) == TRUE

\* db.query(Machine).filter(Machine.id == machine_id).first() finds a row
Registered(table, u) == table[u].registered

\* DatabaseManager.update_machine_status : the table it leaves and what it
\* returns; raises stands for an exception anywhere inside its try block
UpdateStatusInDb(table, u, st, d, t, raises) ==
    IF ~Registered(table, u) THEN [table |-> table, result |-> "False"]
    ELSE LET after == [table EXCEPT ![u] = StoreStatus(@, st, d, t)]
         IN  IF raises THEN [table |-> Rollback(table, after), result |-> "False"]
             ELSE [table |-> after, result |-> "True"]

\* the tables can take another row for this machine
HasRoom(u, n) == Len(db[u].rows) < n /\ Len(db[u].history) < n

\* a direct call of DatabaseManager.update_machine_status
DbUpdateMachineStatus(u, st, d, raises) ==
    /\ LET r == UpdateStatusInDb(db, u, st, d, utcnow, raises)
       IN  /\ db' = r.table
           /\ db_call' = [NoCall EXCEPT !.op = "update_machine_status", !.unit = u,
                                        !.status = st, !.data = d, !.at = utcnow,
                                        !.before = db, !.sent = Len(published),
                                        !.result = r.result]
    /\ UNCHANGED <<utcnow, cleanup, published>>
    /\ UNCHANGED <<classifierVars, appVars, clientVars, update_call, collector>>

\* update_system_data : the system_data it builds has none of the metric keys
\* and last_seen is the time of the request
PortalSample == [last_seen |-> utcnow, data |-> [api_version |-> 1]]

\* POST /api/systems/{system_id}/data : the status is determined, stored, and
\* broadcast; 404 without a broadcast when the store returns False
UpdateSystemData(u, raises) ==
    /\ LET st == determine_status(PortalSample, utcnow, criteria)
           d  == [given |-> TRUE, items |-> PortalSample.data]
           r  == UpdateStatusInDb(db, u, st, d, utcnow, raises)
       IN  /\ db' = r.table
           /\ published' = IF r.result = "True"
                           THEN Append(published, [system_id |-> u, status |-> st])
                           ELSE published
           /\ db_call' = [NoCall EXCEPT !.op = "update_system_data", !.unit = u,
                                        !.status = st, !.data = d, !.at = utcnow,
                                        !.before = db, !.sent = Len(published),
                                        !.result = r.result,
                                        !.resp = IF r.result = "True" THEN "200" ELSE "404"]
    /\ UNCHANGED <<utcnow, cleanup>>
    /\ UNCHANGED <<classifierVars, appVars, clientVars, update_call, collector>>

\* order_by(timestamp.desc()) with the rows in ascending order instead
OldestFirst(a, b) == a.timestamp <= b.timestamp

\* order_by(timestamp.desc()) : a comes before b
NewestFirst(a, b) == a.timestamp >= b.timestamp

\* the rows of one machine with their position in the table
Numbered(entries) == [i \in 1..Len(entries) |-> [id |-> i, timestamp |-> entries[i].timestamp]]

\* filter(timestamp >= cutoff_time) : the rows the query selects
Selected(entries, cutoff) ==
    {Numbered(entries)[i] : i \in {j \in 1..Len(entries) : entries[j].timestamp >= cutoff}}

\* .order_by(...).all() : the selected rows in an order the database may
\* return; rows of equal timestamp come in either order
QueryResults(entries, cutoff) ==
    LET sel == Selected(entries, cutoff)
        n   == Cardinality(sel)
    IN  {s \in [1..n -> sel] :
            /\ \A i, j \in 1..n : i # j => s[i] # s[j]
            /\ \A i, j \in 1..n : i < j => NewestFirst(s[i], s[j])}

\* cutoff_time = datetime.utcnow() - timedelta(hours=hours)
CutoffTime(hours) == utcnow - hours * MinutesPerHour

\* DatabaseManager.get_machine_history, as GET /api/systems/{id}/history calls it
GetMachineHistory(u, hours) ==
    /\ \E s \in QueryResults(db[u].rows, CutoffTime(hours)) :
          db_call' = [NoCall EXCEPT !.op = "get_machine_history", !.unit = u,
                                    !.hours = hours, !.at = utcnow, !.before = db,
                                    !.result = "list", !.out = s]
    /\ UNCHANGED <<db, utcnow, cleanup, published>>
    /\ UNCHANGED <<classifierVars, appVars, clientVars, update_call, collector>>

\* DatabaseManager.get_status_history
GetStatusHistory(u, hours) ==
    /\ \E s \in QueryResults(db[u].history, CutoffTime(hours)) :
          db_call' = [NoCall EXCEPT !.op = "get_status_history", !.unit = u,
                                    !.hours = hours, !.at = utcnow, !.before = db,
                                    !.result = "list", !.out = s]
    /\ UNCHANGED <<db, utcnow, cleanup, published>>
    /\ UNCHANGED <<classifierVars, appVars, clientVars, update_call, collector>>

\* an hour goes by on datetime.utcnow()
HourPasses ==
    /\ utcnow + MinutesPerHour <= MaxHistoryTime
    /\ utcnow' = utcnow + MinutesPerHour
    /\ UNCHANGED <<db, cleanup, published, db_call>>
    /\ UNCHANGED <<classifierVars, appVars, clientVars, update_call, collector>>

\* cleanup_old_data : asyncio.sleep(24 * 60 * 60) returns; the moment is left
\* open so that the task may run at any time
CleanupWakes ==
    /\ cleanup = "sleeping"
    /\ cleanup' = "running"
    /\ UNCHANGED <<db, utcnow, published, db_call>>
    /\ UNCHANGED <<classifierVars, appVars, clientVars, update_call, collector>>

\* cleanup_old_data : logs "Running data cleanup..." and goes back to sleep
CleanupRuns ==
    /\ cleanup = "running"
    /\ cleanup' = "sleeping"
    /\ UNCHANGED <<db, utcnow, published, db_call>>
    /\ UNCHANGED <<classifierVars, appVars, clientVars, update_call, collector>>

\* datetime.utcnow() moves on
PortalTick ==
    /\ utcnow < MaxPortalTime
    /\ utcnow' = utcnow + 1
    /\ UNCHANGED <<db, cleanup, published, db_call>>
    /\ UNCHANGED <<classifierVars, appVars, clientVars, update_call, collector>>

\* ===================================================== StatusCriteria.update
\* the threshold sets a caller may send for one metric: a valid one, and one
\* whose warning bound lies beyond its error bound
CriteriaChoices(m) ==
    CASE m = "speed" ->
           {[warning_threshold_low |-> 600, warning_threshold_high |-> 1900,
             error_threshold_low |-> 300,   error_threshold_high |-> 2400],
            [warning_threshold_low |-> 100, warning_threshold_high |-> 2600,
             error_threshold_low |-> 200,   error_threshold_high |-> 2500]}
      [] OTHER ->
           {[warning_threshold |-> DefaultCriteria[m].warning_threshold - 10,
             error_threshold   |-> DefaultCriteria[m].error_threshold - 10],
            [warning_threshold |-> DefaultCriteria[m].error_threshold + 10,
             error_threshold   |-> DefaultCriteria[m].error_threshold]}

\* the arguments of update_criteria: a dict with the threshold sets of some
\* of the metrics, or a value that is no mapping at all
NewCriteria ==
    {[mapping |-> FALSE, items |-> <<>>]} \cup
    {[mapping |-> TRUE, items |-> f] :
        f \in UNION {{g \in [S -> UNION {CriteriaChoices(m) : m \in Metrics}] :
                          \A m \in S : g[m] \in CriteriaChoices(m)} :
                        S \in (SUBSET Metrics) \ {{}}}}

NoUpdateCall ==
    [arg |-> [mapping |-> TRUE, items |-> <<>>], result |-> "none", prior |-> DefaultCriteria]

\* StatusCriteria.update_criteria : self.criteria.update(new_criteria) and
\* True; False when update raises
UpdateCriteria(nc) ==
    /\ criteria' = IF nc.mapping THEN Merge(criteria, nc.items) ELSE criteria
    /\ update_call' = [arg |-> nc, result |-> IF nc.mapping THEN "True" ELSE "False",
                       prior |-> criteria]
    /\ UNCHANGED <<system_data, clock, verdict>>
    /\ UNCHANGED <<appVars, clientVars, portalVars, collector>>

\* a record cut down to the keys in ks
Restrict(rec, ks) == [k \in ks |-> rec[k]]

\* the valid threshold set of CriteriaChoices for a metric
ValidChoice(m) ==
    CHOOSE c \in CriteriaChoices(m) :
        IF m = "speed" THEN c.warning_threshold_low > c.error_threshold_low
        ELSE c.warning_threshold < c.error_threshold

\* the groups of bounds a caller may name for one metric
BoundGroups(m) ==
    IF m = "speed"
    THEN {{"warning_threshold_low", "warning_threshold_high"},
          {"error_threshold_low", "error_threshold_high"},
          {"warning_threshold_low", "warning_threshold_high",
           "error_threshold_low", "error_threshold_high"}}
    ELSE {{"warning_threshold"}, {"error_threshold"},
          {"warning_threshold", "error_threshold"}}

\* what a caller may send for one metric when it names only some bounds
PartialChoices(m) == {Restrict(ValidChoice(m), ks) : ks \in BoundGroups(m)}

\* update_criteria arguments that name some bounds of up to MaxNamed metrics
PartialCriteria ==
    {[mapping |-> TRUE, items |-> f] :
        f \in UNION {{g \in [S -> UNION {PartialChoices(m) : m \in Metrics}] :
                          \A m \in S : g[m] \in PartialChoices(m)} :
                        S \in {T \in (SUBSET Metrics) \ {{}} : Cardinality(T) <= MaxNamed}}}

\* ============================================ machine_data_collector.py
\* machine_config.py : the status thresholds (temperature and pressure in
\* tenths, as in DefaultCriteria) and the retry limit
TEMPERATURE_WARNING == 600
TEMPERATURE_CRITICAL == 800
PRESSURE_WARNING == 30
PRESSURE_CRITICAL == 50
SPEED_MINIMUM == 500
RETRY_ATTEMPTS == 3

\* SinterCastMachineCollector.determine_machine_status
determine_machine_status(sensor_data) ==
    LET temperature == Get(sensor_data, "temperature")
        pressure == Get(sensor_data, "pressure")
        speed == Get(sensor_data, "speed")
    IN  IF temperature >= TEMPERATURE_CRITICAL \/ pressure >= PRESSURE_CRITICAL THEN "red"
        ELSE IF \/ temperature >= TEMPERATURE_WARNING
                \/ pressure >= PRESSURE_WARNING
                \/ speed < SPEED_MINIMUM THEN "yellow"
        ELSE IF speed = 0 THEN "black"
        ELSE "green"

\* what collect_sensor_data returns: {} after an error, else readings; the
\* ones tried are 0 and the neighbourhood of every bound
SensorData ==
    {<<>>} \cup
    [temperature : {0} \cup Around(TEMPERATURE_WARNING) \cup Around(TEMPERATURE_CRITICAL),
     pressure : {0} \cup Around(PRESSURE_WARNING) \cup Around(PRESSURE_CRITICAL),
     speed : {0} \cup Around(SPEED_MINIMUM)]

\* run_continuous before it is called; results is the outcome of every
\* send_data_to_api call so far
NewCollector ==
    [pc |-> "init", consecutive_failures |-> 0, sensor_data |-> <<>>, status |-> "none",
     last_status |-> "none", results |-> <<>>]

CollectorInit == collector = NewCollector

\* the counter after a send that does not reset it
CountFailuresNoReset(n, success) == IF success THEN n ELSE n + 1

\* run_continuous : the counter after one send_data_to_api call
CountFailures(n, success) == IF success THEN 0 ELSE n + 1

\* run_continuous : test_api_connection, then connect_to_machine_sensors,
\* whose result only changes a log line
TestApiConnection(ok) ==
    /\ collector.pc = "init"
    /\ collector' = [collector EXCEPT !.pc = IF ok THEN "loop" ELSE "no_api"]
    /\ UNCHANGED <<classifierVars, appVars, clientVars, portalVars, update_call>>

\* one pass of the while loop up to time.sleep: send_data_to_api builds the
\* payload from a fresh sample and posts it; every exception of the post is
\* caught there and reported as False
SendDataToApi(sample, success) ==
    /\ collector.pc = "loop"
    /\ Len(collector.results) < MaxPosts
    /\ LET n == CountFailures(collector.consecutive_failures, success)
           st == determine_machine_status(sample)
       IN  collector' = [collector EXCEPT
                            !.sensor_data = sample,
                            !.status = st,
                            !.last_status = IF success THEN st ELSE @,
                            !.results = Append(@, success),
                            !.consecutive_failures = n,
                            !.pc = IF ~success /\ n >= RETRY_ATTEMPTS THEN "stopped"
                                   ELSE "sleep"]
    /\ UNCHANGED <<classifierVars, appVars, clientVars, portalVars, update_call>>

\* time.sleep(COLLECTION_INTERVAL) returns
CollectorSleepDone ==
    /\ collector.pc = "sleep"
    /\ collector' = [collector EXCEPT !.pc = "loop"]
    /\ UNCHANGED <<classifierVars, appVars, clientVars, portalVars, update_call>>

\* KeyboardInterrupt in the loop: "Data collection stopped by user", break
CollectorInterrupt ==
    /\ collector.pc \in {"loop", "sleep"}
    /\ collector' = [collector EXCEPT !.pc = "interrupted"]
    /\ UNCHANGED <<classifierVars, appVars, clientVars, portalVars, update_call>>

\* the collector on one machine
CollectorNext ==
    \/ \E ok \in BOOLEAN : TestApiConnection(ok)
    \/ \E sample \in SensorData : \E success \in BOOLEAN : SendDataToApi(sample, success)
    \/ CollectorSleepDone
    \/ CollectorInterrupt

\* ------------------------------------------------------------ specifications
ClassifierIdle ==
    /\ criteria = DefaultCriteria
    /\ clock = 0
    /\ system_data = [last_seen |-> NoneVal, data |-> <<>>]
    /\ verdict = "none"

ConfigInit == update_call = NoUpdateCall

Init == ClassifierIdle /\ AppInit /\ ClientInit /\ PortalInit /\ ConfigInit /\ CollectorInit

Next ==
    \/ \E h \in Handles : Connect(h)
    \/ \E h \in Handles : PeerCloses(h)
    \/ \E h \in Handles : PeerStalls(h)
    \/ \E h \in Handles : EndpointDisconnect(h)
    \/ \E t \in Requests : \E u \in Units : \E st \in UpdateStatuses :
          \E d \in UpdateData : \E ts \in UpdateTimes : UpdateMachineStatus(t, u, st, d, ts)
    \/ \E t \in Requests : UpdateMachineNotFound(t)
    \/ \E t \in Tasks : SendReturns(t)
    \/ \E t \in Tasks : SendRaises(t)
    \/ SimReset
    \/ SimWakeRecover
    \/ SimRecoverNext
    \/ SimSleep30Done
    \/ SimWakeAlert
    \/ Tick

Spec == Init /\ [][Next]_vars

\* the classifier alone: every sample is an initial state
InitClassify == ClassifierInit /\ AppInit /\ ClientInit /\ PortalInit /\ ConfigInit /\ CollectorInit

NextClassify == GetSystemStatus

SpecClassify == InitClassify /\ [][NextClassify]_vars

\* the store with its two writers, while no websocket client is connected
StoreNext ==
    \/ SimReset
    \/ SimWakeRecover
    \/ SimRecoverNext
    \/ SimSleep30Done
    \/ SimWakeAlert
    \/ Tick
    \/ \E t \in Requests : \E u \in Units : \E st \in UpdateStatuses :
          \E d \in UpdateData : \E ts \in UpdateTimes : UpdateMachineStatus(t, u, st, d, ts)
    \/ \E t \in Requests : UpdateMachineNotFound(t)

StoreSpec == Init /\ [][StoreNext]_vars

\* the connection manager with one producer: the websocket clients and the
\* ingest endpoint, without the simulation cycle and the clock
HubNext ==
    \/ SimReset
    \/ \E h \in Handles : Connect(h)
    \/ \E h \in Handles : PeerCloses(h)
    \/ \E h \in Handles : PeerStalls(h)
    \/ \E h \in Handles : EndpointDisconnect(h)
    \/ \E t \in Requests : \E u \in Units : \E st \in UpdateStatuses :
          \E d \in UpdateData : \E ts \in UpdateTimes : UpdateMachineStatus(t, u, st, d, ts)
    \/ \E t \in Tasks : SendReturns(t)
    \/ \E t \in Tasks : SendRaises(t)

\* the event loop resumes every coroutine that is ready: a send that has
\* completed or failed, a receive that has raised, the first step of the task
HubSpec == Init /\ [][HubNext]_vars

\* the feed client alone, with its server and the caller of send_message and close
ClientNext ==
    \/ ClientConnect
    \/ ConnectSucceeds
    \/ ConnectFails
    \/ BackoffDone
    \/ \E k \in MessageKinds : Receive(k)
    \/ StreamError
    \/ StreamEnds
    \/ \E r \in BOOLEAN : SendMessage(r)
    \/ Close

InitClient == ClassifierIdle /\ AppInit /\ ClientConfigured /\ PortalInit /\ ConfigInit /\ CollectorInit

ClientSpec == InitClient /\ [][ClientNext]_vars

\* the portal: registration, the ingest endpoint, the clock and the cleanup task;
\* every machine is registered under one name and the database does not fail
PortalName == "plant_a"

PortalNext ==
    \/ \E u \in Units : AddMachine(u, PortalName)
    \/ \E u \in Units : HasRoom(u, MaxSamples) /\ UpdateSystemData(u, FALSE)
    \/ CleanupWakes
    \/ CleanupRuns
    \/ PortalTick

\* time passes and the event loop resumes the cleanup task whenever its sleep
\* is over; nothing obliges a unit to report
PortalFairSpec ==
    /\ Init
    /\ [][PortalNext]_vars
    /\ WF_vars(PortalTick)
    /\ WF_vars(CleanupWakes)
    /\ WF_vars(CleanupRuns)

\* the DatabaseManager alone: registration and status updates at one moment
DbNext ==
    \/ \E u \in Units : \E nm \in Names : AddMachine(u, nm)
    \/ \E u \in Units : \E st \in DbStatuses : \E d \in DbData : \E raises \in BOOLEAN :
          HasRoom(u, MaxSamples) /\ DbUpdateMachineStatus(u, st, d, raises)
    \/ \E u \in Units : \E raises \in BOOLEAN :
          HasRoom(u, MaxSamples) /\ UpdateSystemData(u, raises)

DbSpec == Init /\ [][DbNext]_vars

\* the history of one machine and its queries while hours pass
HistoryUnit == 1

HistoryNext ==
    \/ \E nm \in Names : AddMachine(HistoryUnit, nm)
    \/ \E st \in DbStatuses : \E d \in DbData :
          HasRoom(HistoryUnit, MaxHistoryRows) /\ DbUpdateMachineStatus(HistoryUnit, st, d, FALSE)
    \/ HourPasses
    \/ \E u \in Units : \E h \in HistoryWindows : GetMachineHistory(u, h)
    \/ \E u \in Units : \E h \in HistoryWindows : GetStatusHistory(u, h)

HistorySpec == Init /\ [][HistoryNext]_vars

\* requests for listed and for unknown ids, on the table of main.py and on
\* the portal's database
LookupNext ==
    \/ SimReset
    \/ \E t \in Requests : \E u \in Units : \E st \in UpdateStatuses :
          \E d \in UpdateData : \E ts \in UpdateTimes : UpdateMachineStatus(t, u, st, d, ts)
    \/ \E t \in Requests : UpdateMachineNotFound(t)
    \/ \E id \in Units \cup {UnknownUnit} : GetMachine(id)
    \/ \E u \in Units : AddMachine(u, PortalName)
    \/ \E u \in Units : HasRoom(u, MaxSamples) /\ UpdateSystemData(u, FALSE)

LookupSpec == Init /\ [][LookupNext]_vars

\* MachineUpdate.status is any string: the severities that are tried and one
\* of the values the Machine model documents
IngestStatuses == UpdateStatuses \cup {"offline"}

\* the store with its two writers, the ingest endpoint taking any status
IngestNext ==
    \/ SimReset
    \/ SimWakeRecover
    \/ SimRecoverNext
    \/ SimSleep30Done
    \/ SimWakeAlert
    \/ \E t \in Requests : \E u \in Units : \E st \in IngestStatuses :
          \E d \in UpdateData : \E ts \in UpdateTimes : UpdateMachineStatus(t, u, st, d, ts)

IngestSpec == Init /\ [][IngestNext]_vars

\* readers next to the two writers, with subscribers so that the writers are
\* suspended in their broadcasts while the reads run
ReadNext ==
    \/ SimReset
    \/ SimWakeAlert
    \/ Connect(1)
    \/ \E t \in Tasks : SendReturns(t)
    \/ \E t \in Requests : \E u \in Units : \E st \in UpdateStatuses :
          \E d \in UpdateData : \E ts \in UpdateTimes : UpdateMachineStatus(t, u, st, d, ts)
    \/ \E u \in Units : GetMachine(u)
    \/ GetMachines

ReadSpec == Init /\ [][ReadNext]_vars

\* the threshold configuration under a sequence of update_criteria calls
CriteriaNext == \E nc \in NewCriteria : UpdateCriteria(nc)

CriteriaSpec == Init /\ [][CriteriaNext]_vars

\* the same under update_criteria calls that name only some of the bounds
PartialNext == \E nc \in PartialCriteria : UpdateCriteria(nc)

PartialSpec == Init /\ [][PartialNext]_vars

\* classification next to update_criteria calls that name only some bounds
FaultNext ==
    \/ \E nc \in PartialCriteria : UpdateCriteria(nc)
    \/ \E sd \in FaultSamples : GetSystemStatusOf(sd)

FaultSpec == Init /\ [][FaultNext]_vars

CollectorSpec == Init /\ [][CollectorNext]_vars

HubFairSpec ==
    /\ Init
    /\ [][HubNext]_vars
    /\ WF_vars(SimReset)
    /\ \A t \in Tasks : WF_vars(SendReturns(t)) /\ WF_vars(SendRaises(t))
    /\ \A h \in Handles : WF_vars(EndpointDisconnect(h))

\* the simulation task publishing to a websocket client that comes and goes,
\* next to the ingest endpoint
SimNext ==
    \/ SimReset
    \/ SimWakeRecover
    \/ SimRecoverNext
    \/ SimSleep30Done
    \/ SimWakeAlert
    \/ Connect(1)
    \/ PeerCloses(1)
    \/ EndpointDisconnect(1)
    \/ \E t \in Tasks : SendReturns(t)
    \/ \E t \in Tasks : SendRaises(t)
    \/ \E t \in Requests : \E u \in Units : \E st \in UpdateStatuses :
          \E d \in UpdateData : \E ts \in UpdateTimes : UpdateMachineStatus(t, u, st, d, ts)

\* the event loop resumes a coroutine whenever its sleep is over or its send
\* has completed or failed, and the endpoint of a closed socket; nothing
\* obliges a client to connect or a unit to report
SimFairSpec ==
    /\ Init
    /\ [][SimNext]_vars
    /\ WF_vars(SimReset)
    /\ WF_vars(SimWakeRecover)
    /\ WF_vars(SimRecoverNext)
    /\ WF_vars(SimSleep30Done)
    /\ WF_vars(SimWakeAlert)
    /\ \A t \in Tasks : WF_vars(SendReturns(t)) /\ WF_vars(SendRaises(t))
    /\ WF_vars(EndpointDisconnect(1))

\* ==================================================================== claims
\* the sample was classified
Classified == verdict # "none"

\* the sample's last_seen is present and within connection.timeout_minutes
RecentlySeen ==
    /\ system_data.last_seen # NoneVal
    /\ clock - system_data.last_seen <= criteria.connection.timeout_minutes

\* the error and the warning bounds of a metric
ErrorBounds(m) ==
    IF m = "speed" THEN {criteria.speed.error_threshold_low, criteria.speed.error_threshold_high}
    ELSE {criteria[m].error_threshold}

WarningBounds(m) ==
    IF m = "speed" THEN {criteria.speed.warning_threshold_low,
                         criteria.speed.warning_threshold_high}
    ELSE {criteria[m].warning_threshold}

\* a reading v of metric m lies strictly outside the error / warning bounds
BeyondError(m, v) ==
    IF m = "speed" THEN v < criteria.speed.error_threshold_low
                        \/ v > criteria.speed.error_threshold_high
    ELSE v > criteria[m].error_threshold

BeyondWarning(m, v) ==
    IF m = "speed" THEN v < criteria.speed.warning_threshold_low
                        \/ v > criteria.speed.warning_threshold_high
    ELSE v > criteria[m].warning_threshold

\* C1: a unit whose last_seen is present but older than connection.timeout_minutes
\* is classified 'black' (UNREACHABLE), whatever its metrics are.
C1_StaleIsUnreachable ==
    ( /\ Classified
      /\ system_data.last_seen # NoneVal
      /\ clock - system_data.last_seen > criteria.connection.timeout_minutes )
    => verdict = "black"

\* C2: for a recently seen unit a reading equal to a bound is no breach of that
\* bound: when a metric reads exactly an error bound and the verdict is 'red',
\* some other metric is read strictly beyond its error bound; when a metric
\* reads exactly a warning bound and the verdict is 'yellow', some other metric
\* is read strictly beyond its warning bound.
C2_BoundIsNoBreach ==
    (Classified /\ RecentlySeen) =>
        \A m \in DOMAIN system_data.data :
            /\ (system_data.data[m] \in ErrorBounds(m) /\ verdict = "red")
                 => \E m2 \in Metrics \ {m} : BeyondError(m2, Get(system_data.data, m2))
            /\ (system_data.data[m] \in WarningBounds(m) /\ verdict = "yellow")
                 => \E m2 \in Metrics \ {m} : BeyondWarning(m2, Get(system_data.data, m2))

\* C2 witness: a classified recent sample with temperature on its error bound
\* and every other metric on a warning bound; it is 'yellow', not 'red'.
C2_Witness ==
    /\ Classified
    /\ RecentlySeen
    /\ DOMAIN system_data.data = Metrics
    /\ system_data.data["temperature"] = criteria.temperature.error_threshold
    /\ system_data.data["pressure"] = criteria.pressure.warning_threshold
    /\ system_data.data["disk_volume"] = criteria.disk_volume.warning_threshold
    /\ system_data.data["speed"] = criteria.speed.warning_threshold_low
    /\ verdict = "yellow"

\* C3: a metric that is absent never causes a breach: a recently seen unit none
\* of whose present metrics is beyond a bound (the empty snapshot included) is
\* classified 'green'.
C3_AbsentIsNoBreach ==
    ( /\ Classified
      /\ RecentlySeen
      /\ \A m \in DOMAIN system_data.data :
            ~BeyondError(m, system_data.data[m]) /\ ~BeyondWarning(m, system_data.data[m]) )
    => verdict = "green"

\* C4: a recently seen unit is 'red' iff a present metric is beyond its error
\* bound, otherwise 'yellow' iff a present metric is beyond a warning bound,
\* otherwise 'green'.
C4_SeverityOfPresentMetrics ==
    (Classified /\ RecentlySeen) =>
        verdict = IF \E m \in DOMAIN system_data.data : BeyondError(m, system_data.data[m])
                  THEN "red"
                  ELSE IF \E m \in DOMAIN system_data.data :
                             BeyondWarning(m, system_data.data[m])
                  THEN "yellow"
                  ELSE "green"

\* the step hands a new message to broadcast
Publishes == Len(events') = Len(events) + 1

\* the step is made by a request handler, not by the simulation task
RequestStep == tasks'[SimTask] = tasks[SimTask] /\ tasks' # tasks

HasEvent(u) == \E i \in 1..Len(events) : events[i].machine_id = u

LastEvent(u) ==
    events[CHOOSE i \in 1..Len(events) :
              /\ events[i].machine_id = u
              /\ \A j \in (i + 1)..Len(events) : events[j].machine_id # u]

\* C5: an update through the ingest endpoint whose timestamp is earlier than the
\* unit's stored last_seen changes neither its severity nor its last_seen, and
\* the stored last_seen of a unit never decreases.
C5_LastSeenNeverRegresses ==
    [][ (RequestStep /\ Publishes) =>
          LET e == events'[Len(events')]
              u == e.machine_id
          IN  /\ machines'[u].last_seen >= machines[u].last_seen
              /\ e.timestamp < machines[u].last_seen
                   => /\ machines'[u].status = machines[u].status
                      /\ machines'[u].last_seen = machines[u].last_seen ]_vars

\* C6: an accepted update that leaves the unit's severity and metric content as
\* they were in the last event emitted for the unit publishes no event.
C6_NoEventForNoOp ==
    [][ \A u \in Units :
          ( /\ HasEvent(u)
            /\ machines[u].status = LastEvent(u).status
            /\ machines'[u].status = machines[u].status
            /\ machines'[u].data = machines[u].data )
          => ~(Publishes /\ events'[Len(events')].machine_id = u) ]_vars

\* C7: every commit that changes a unit's stored severity comes with exactly one
\* broadcast of an event for that unit carrying the new severity.
C7_EveryChangeIsPublished ==
    [][ \A u \in Units :
          machines'[u].status # machines[u].status
          => /\ Publishes
             /\ events'[Len(events')].machine_id = u
             /\ events'[Len(events')].status = machines'[u].status ]_vars

\* the broadcast call of task t has returned normally
BroadcastReturned(t) ==
    /\ tasks[t].ev # 0
    /\ IF t = SimTask THEN tasks[t].pc \in {"sleep15", "sleep30", "ret"}
       ELSE tasks[t].pc = "idle" /\ tasks[t].resp = "200"

Count(q, x) == Cardinality({i \in 1..Len(q) : q[i] = x})

\* C8: when a broadcast has returned, every subscriber that was registered when
\* it began and whose own send succeeds has received the message exactly once.
C8_BroadcastReachesAll ==
    \A t \in Tasks :
        BroadcastReturned(t) =>
            \A h \in SeqRange(tasks[t].snap) :
                health[h] = "ok" => Count(received[h], tasks[t].ev) = 1

\* a broadcast is suspended in a send to h
SendingTo(t, h) == tasks[t].pc = "send" /\ tasks[t].conn = h

\* C9: with a subscriber whose send never completes, the stalled subscriber is
\* eventually removed from active_connections, and every other subscriber that
\* was registered when the broadcast began still receives the event.
C9_StalledSubscriberIsIsolated ==
    /\ \A h \in Handles :
         ((\E t \in Tasks : SendingTo(t, h)) /\ health[h] = "stalled")
            ~> (h \notin SeqRange(active_connections))
    /\ \A t \in Tasks : \A e \in 1..MaxEvents : \A h \in Handles :
         (tasks[t].pc = "send" /\ tasks[t].ev = e /\ h \in SeqRange(tasks[t].snap)
            /\ health[h] = "ok")
            ~> (Count(received[h], e) = 1 \/ health[h] # "ok")

\* C10: broadcast never raises to its caller: no request ends with a server
\* error and the simulation task is never ended by an exception.
C10_BroadcastNeverRaises ==
    \A t \in Tasks : tasks[t].resp # "500" /\ tasks[t].pc # "crashed"


\* C11: when a broadcast has returned, every subscriber whose connection was
\* already dead when the broadcast was called is out of active_connections.
C11_DeadSubscribersAreDropped ==
    \A t \in Tasks :
        BroadcastReturned(t) =>
            \A h \in SeqRange(tasks[t].snap) :
                h \in tasks[t].dead => h \notin SeqRange(active_connections)

\* C12: disconnect on a handle that is no longer in active_connections does not
\* raise: no websocket_endpoint handler ends with the ValueError of list.remove.
C12_DisconnectIsIdempotent ==
    \A h \in Handles : endpoint[h] # "error"

\* the handles the list iterator of a suspended broadcast will still hand out
StillDue(t, act) == {act[i] : i \in (tasks[t].idx + 1)..Len(act)}

\* C13: a connect or disconnect that runs while a broadcast is suspended in a
\* send leaves the broadcast correct: every subscriber that was still due and
\* stays registered is still due afterwards, and no subscriber that was already
\* passed becomes due again.
C13_ChurnDuringBroadcast ==
    [][ \A t \in Tasks :
          (tasks[t].pc = "send" /\ tasks'[t] = tasks[t] /\ endpoint' # endpoint)
          => /\ \A h \in StillDue(t, active_connections) :
                   h \in SeqRange(active_connections')
                      => h \in StillDue(t, active_connections')
             /\ \A h \in SeqRange(active_connections) :
                   h \in StillDue(t, active_connections')
                      => h \in StillDue(t, active_connections) ]_vars

\* the broadcast of task t is over: it has returned or raised
BroadcastOver(t) ==
    /\ tasks[t].ev # 0
    /\ IF t = SimTask THEN tasks[t].pc \in {"sleep15", "sleep30", "ret", "crashed"}
       ELSE tasks[t].pc = "idle" /\ tasks[t].resp \in {"200", "500"}

\* C14: a subscriber gets every event published while it is subscribed and no
\* event published before it subscribed: an event reaches only handles that
\* were registered when it was published, and once its broadcast is over it has
\* reached every handle registered then that is still registered and healthy.
C14_EventsWhileSubscribed ==
    \A t \in Tasks : \A h \in Handles :
        /\ (tasks[t].ev # 0 /\ Count(received[h], tasks[t].ev) > 0)
              => h \in SeqRange(tasks[t].snap)
        /\ (BroadcastOver(t) /\ h \in SeqRange(tasks[t].snap)
              /\ h \in SeqRange(active_connections) /\ health[h] = "ok")
              => Count(received[h], tasks[t].ev) > 0

\* the client has given up and no connection attempt of it ever succeeded
GaveUpUnconnected == client.pc = "failed" /\ feed.sessions = 0

C16_NoConnectAfterClose ==
    [][(feed.stopped /\ client.pc # "init") => feed'.calls = feed.calls]_vars

\* the well-formed messages of a log, by id, in arrival order
WellFormed(log) ==
    LET ok == SelectSeq(log, LAMBDA msg : msg.kind # "malformed")
    IN  [i \in 1..Len(ok) |-> ok[i].id]

\* a message arrives in this step
Arrival == Len(feed'.arrived) = Len(feed.arrived) + 1

\* C17: while connected, a message that fails to parse or whose handler raises
\* is skipped: the connection stays open, running and reconnect_attempts are
\* unchanged, no reconnect is started, and every well-formed message, later
\* ones included, is forwarded to the callback in arrival order.
C17_BadMessageIsSkipped ==
    [][Arrival =>
         /\ feed.arrived'[Len(feed.arrived')].kind # "ok" =>
               /\ client' = client
               /\ feed'.calls = feed.calls
         /\ feed'.forwarded = WellFormed(feed'.arrived)]_vars

\* a well-formed message was forwarded after a malformed one and after one
\* whose handler raised, on the same open connection
C17_Witness ==
    /\ client.pc = "listening"
    /\ client.websocket = "open"
    /\ Len(feed.arrived) = 3
    /\ feed.arrived[1].kind = "malformed"
    /\ feed.arrived[2].kind = "handler_raises"
    /\ feed.arrived[3].kind = "ok"
    /\ feed.forwarded = <<2, 3>>

\* C18: every connection loss, receive failure or send failure while the
\* client is connected moves it to reconnecting (the backoff wait, then a new
\* attempt) as long as the attempt limit is not reached and no stop was
\* requested; a failing send_message and a receive stream that ends without
\* an exception are such losses.
C18_EveryLossReconnects ==
    [][(/\ client.pc = "listening"
        /\ ~feed.stopped
        /\ client.reconnect_attempts < client.max_reconnect_attempts
        /\ feed'.losses > feed.losses)
       => client'.pc = "backoff"]_vars

\* the unit is registered and has not reported within the liveness window
Silent(u) ==
    /\ db[u].registered
    /\ utcnow - db[u].last_seen > criteria.connection.timeout_minutes

\* the unit is stored as unreachable (or disconnected) with a history row that
\* names the liveness timeout, and the change was broadcast
Degraded(u) ==
    /\ db[u].status \in {"black", "grey"}
    /\ \E i \in 1..Len(db[u].history) : db[u].history[i].reason = "liveness timeout"
    /\ \E i \in 1..Len(published) :
          published[i].system_id = u /\ published[i].status = db[u].status

\* C19: a registered unit that stops reporting degrades without a new sample:
\* once the time since last_seen exceeds the liveness window, a periodic sweep
\* eventually stores it as unreachable, broadcasts the change and records a
\* history entry with reason "liveness timeout" (unless it reports again).
C19_SilentUnitDegrades ==
    \A u \in Units : Silent(u) ~> (Degraded(u) \/ ~Silent(u))

\* a threshold set whose warning bound is more severe than its error bound
InvalidBounds(items) ==
    \E m \in DOMAIN items :
        IF m = "speed"
        THEN \/ items[m].warning_threshold_low < items[m].error_threshold_low
             \/ items[m].warning_threshold_high > items[m].error_threshold_high
        ELSE items[m].warning_threshold > items[m].error_threshold

\* C20: update_criteria rejects a threshold set with invalid bounds: it
\* reports failure and the thresholds in effect before the call stay in effect.
C20_InvalidBoundsRejected ==
    (update_call.result # "none" /\ InvalidBounds(update_call.arg.items)) =>
        /\ update_call.result = "False"
        /\ criteria = update_call.prior

\* every metric of the table has all the bounds the default table has
Complete(crit) ==
    \A m \in Metrics : DOMAIN crit[m] = DOMAIN DefaultCriteria[m]

\* C21: after update_criteria with a partial threshold set, every bound the
\* update names has the new value and every bound it does not name keeps its
\* previous value, so a later classification sees a complete threshold set.
C21_UnnamedBoundsAreKept ==
    update_call.result = "True" =>
        /\ Complete(criteria)
        /\ \A m \in Metrics : \A k \in DOMAIN update_call.prior[m] :
              /\ k \in DOMAIN criteria[m]
              /\ criteria[m][k] =
                    IF m \in DOMAIN update_call.arg.items
                          /\ k \in DOMAIN update_call.arg.items[m]
                    THEN update_call.arg.items[m][k]
                    ELSE update_call.prior[m][k]

\* the last call was add_machine for an id that was in the table already
ReAdded(u) ==
    /\ db_call.op = "add_machine"
    /\ db_call.unit = u
    /\ db_call.before[u].registered

\* severity, last_seen and history of unit u are as before the last call
SeverityKept(u) ==
    /\ db[u].status = db_call.before[u].status
    /\ db[u].last_seen = db_call.before[u].last_seen
    /\ db[u].history = db_call.before[u].history

\* C22: registering a unit a second time with an id that exists and identical
\* metadata leaves its stored severity, last_seen and history unchanged and
\* leaves every other unit unchanged.
C22_ReRegisterIsIdempotent ==
    \A u \in Units :
        (ReAdded(u) /\ db_call.name = db_call.before[u].name) =>
            /\ SeverityKept(u)
            /\ \A v \in Units \ {u} : db[v] = db_call.before[v]

\* a unit that has a severity of its own and a history row is registered
\* again under the same name, next to another registered unit
C22_Witness ==
    \E u \in Units :
        /\ ReAdded(u)
        /\ db_call.name = db_call.before[u].name
        /\ db_call.before[u].status # DefaultStatus
        /\ db_call.before[u].history # <<>>
        /\ \E v \in Units \ {u} : db[v].registered

\* C23: re-registering an existing unit id with different static metadata
\* succeeds and updates exactly that metadata, while the unit's severity and
\* history stay as they were.
C23_ReRegisterUpdatesMetadata ==
    \A u \in Units :
        (ReAdded(u) /\ db_call.name # db_call.before[u].name) =>
            /\ db_call.result = "True"
            /\ db[u].name = db_call.name
            /\ SeverityKept(u)

\* the last call was one of the two history queries
HistoryCall == db_call.op \in {"get_machine_history", "get_status_history"}

\* the entries stored for the unit of the last query, in the table it asked
Stored ==
    IF db_call.op = "get_machine_history" THEN db_call.before[db_call.unit].rows
    ELSE db_call.before[db_call.unit].history

\* the stored entries whose timestamp lies within the last `hours` of the query
Within ==
    {i \in 1..Len(Stored) :
        db_call.at - Stored[i].timestamp <= db_call.hours * MinutesPerHour}

StatusCall == db_call.op \in {"update_machine_status", "update_system_data"}

\* C29: update_machine_status appends one status-history row with the new
\* status exactly when the status differs from the stored one, and one
\* machine_data row for every accepted sample that carries data.
C29_HistoryRowsPerSample ==
    (StatusCall /\ db_call.result = "True") =>
        LET old == db_call.before[db_call.unit]
            new == db[db_call.unit]
        IN  /\ IF db_call.status # old.status
               THEN /\ Len(new.history) = Len(old.history) + 1
                    /\ SubSeq(new.history, 1, Len(old.history)) = old.history
                    /\ new.history[Len(new.history)].status = db_call.status
               ELSE new.history = old.history
            /\ IF Truthy(db_call.data)
               THEN /\ Len(new.rows) = Len(old.rows) + 1
                    /\ SubSeq(new.rows, 1, Len(old.rows)) = old.rows
               ELSE new.rows = old.rows

\* an accepted sample that refreshes the data and leaves the status as it is
C29_Witness ==
    /\ db_call.op = "update_machine_status"
    /\ db_call.result = "True"
    /\ db_call.status = db_call.before[db_call.unit].status
    /\ Truthy(db_call.data)
    /\ Len(db[db_call.unit].rows) = Len(db_call.before[db_call.unit].rows) + 1

\* C30: update_machine_status is all-or-nothing: either status, last_seen, the
\* data row and the history row are all committed and it returns True, or
\* the stored state is as before the call and it returns False; and
\* update_system_data broadcasts no event when it returns False.
C30_UpdateIsAllOrNothing ==
    StatusCall =>
        LET u == db_call.unit
        IN  \/ /\ db_call.result = "True"
               /\ db[u].status = db_call.status
               /\ db[u].last_seen = db_call.at
               /\ Truthy(db_call.data) =>
                     /\ Len(db[u].rows) = Len(db_call.before[u].rows) + 1
                     /\ db[u].rows[Len(db[u].rows)].timestamp = db_call.at
               /\ db_call.status # db_call.before[u].status =>
                     /\ Len(db[u].history) = Len(db_call.before[u].history) + 1
                     /\ db[u].history[Len(db[u].history)].status = db_call.status
               /\ \A v \in Units \ {u} : db[v] = db_call.before[v]
               /\ db_call.op = "update_system_data" => Len(published) = db_call.sent + 1
            \/ /\ db_call.result = "False"
               /\ db = db_call.before
               /\ Len(published) = db_call.sent

\* the ingest endpoint's update of a registered unit failed inside the store
C30_Witness ==
    /\ db_call.op = "update_system_data"
    /\ db_call.result = "False"
    /\ db_call.before[db_call.unit].registered
    /\ db_call.status # db_call.before[db_call.unit].status

\* C25: a query or a status update for a unit id that is not registered is
\* reported as not found and has no effect: no unit's severity, last_seen or
\* metrics change, no history entry is written and no event is broadcast.
C25_UnknownUnitIsNotFound ==
    [][ /\ (read' # read /\ read'.op = "get_machine" /\ read'.unit \notin Units) =>
              /\ read'.resp = "404"
              /\ machines' = machines /\ events' = events
        /\ \A t \in Requests : (tasks'[t] # tasks[t] /\ tasks'[t].resp = "404") =>
              /\ tasks'[t].pc = "idle"
              /\ machines' = machines /\ events' = events
        /\ (db_call' # db_call /\ db_call'.op = "update_system_data"
              /\ ~db[db_call'.unit].registered) =>
              /\ db_call'.resp = "404"
              /\ db' = db /\ published' = published ]_vars

\* each of the three requests has been answered with 404, the one to the
\* portal while another unit was registered there
C25_Witness ==
    /\ read.resp = "404"
    /\ \E t \in Requests : tasks[t].resp = "404"
    /\ db_call.op = "update_system_data"
    /\ db_call.resp = "404"
    /\ ~db[db_call.unit].registered
    /\ \E v \in Units : db[v].registered

\* C26: in every state reached by ingest updates and simulation steps from the
\* initial unit table, each unit's stored status is one of the five severity
\* values. The states before the simulation task's first step, where the
\* table still holds the literals of SAMPLE_MACHINES, are left out here: the
\* statement fails without them.
C26_StatusIsASeverity ==
    tasks[SimTask].pc # "start" =>
        \A u \in Units : machines[u].status \in Severities

\* the last of the first n events that is about unit u, 0 when there is none
LastEventFor(u, n) ==
    LET about == {i \in 1..n : events[i].machine_id = u}
    IN  IF about = {} THEN 0 ELSE CHOOSE i \in about : \A j \in about : j <= i

\* C27: a read of a unit that interleaves with concurrent writers never sees a
\* partially updated record: the status, last_seen and metric values it
\* returns all come from the same committed update, the last one of that unit.
C27_ReadsAreWhole ==
    read.resp = "200" =>
        \A u \in DOMAIN read.table :
            LET i == LastEventFor(u, read.seen)
            IN  i # 0 =>
                  /\ read.table[u].status = events[i].status
                  /\ read.table[u].last_seen = events[i].timestamp
                  /\ \A k \in DOMAIN events[i].data :
                        read.table[u].data[k] = events[i].data[k]

\* a unit was read while the request that updated it and the simulation task
\* were both suspended in their broadcasts
C27_Witness ==
    /\ read.op = "get_machine"
    /\ read.seen = Len(events)
    /\ \A t \in Tasks : tasks[t].pc = "send"
    /\ \E t \in Requests :
          /\ events[tasks[t].ev].machine_id = read.unit
          /\ LastEventFor(read.unit, read.seen) = tasks[t].ev

\* the positions in handle h's inbox of the events about unit u
InboxOf(h, u) == {i \in 1..Len(received[h]) : events[received[h][i]].machine_id = u}

\* C28: each subscriber gets the events of a unit in the order in which the
\* changes were committed (the order of the event log), and once no broadcast
\* is in progress the last event a connected, healthy subscriber has received
\* for a unit carries the unit's stored severity.
C28_EventsInCommitOrder ==
    \A h \in Handles : \A u \in Units :
        /\ \A i, j \in InboxOf(h, u) : i < j => received[h][i] < received[h][j]
        /\ ( /\ health[h] = "ok"
             /\ h \in SeqRange(active_connections)
             /\ \A t \in Tasks : tasks[t].pc # "send"
             /\ InboxOf(h, u) # {} )
           => LET last == CHOOSE i \in InboxOf(h, u) : \A j \in InboxOf(h, u) : j <= i
              IN  events[received[h][last]].status = machines[u].status

\* C31: under fair scheduling every unit that enters an alert state (yellow,
\* red, black, grey) is eventually green again: the next cycle of
\* simulate_machine_updates sets it back and broadcasts its recovery. (The
\* event log of the model is bounded; a full log ends the obligation.)
C31_AlertsRecover ==
    \A u \in Units :
        (machines[u].status \in AlertStatuses)
            ~> (machines[u].status = "green" \/ Len(events) >= MaxEvents)

\* the units whose stored status is an alert status
InAlert == {u \in Units : machines[u].status \in AlertStatuses}

\* C32: while the simulation task is the only writer (no ingest update has
\* been made), at most one unit is in an alert state at any time after the
\* task's initial reset, and the recovery loop never has a second unit to do.
C32_OneAlertAtATime ==
    (tasks[SimTask].pc # "start" /\ Updates(events) = 0) =>
        /\ Cardinality(InAlert) <= 1
        /\ tasks[SimTask].todo = <<>>

\* the task alone has put a unit into alert, recovered it and put a unit into
\* alert again
C32_Witness ==
    /\ Updates(events) = 0
    /\ Len(events) >= 3
    /\ InAlert # {}

\* C33: reconnect_attempts always lies in 0..max_reconnect_attempts, it is 0
\* from every successful connect on, and the attempt limit bounds consecutive
\* failures only: the client stops reconnecting for good only when
\* max_reconnect_attempts connection attempts in a row have failed.
C33_LimitBoundsConsecutiveFailures ==
    /\ client.reconnect_attempts \in 0..client.max_reconnect_attempts
    /\ client.pc = "listening" => client.reconnect_attempts = 0
    /\ client.pc \in {"failed", "crashed"} => feed.fails >= client.max_reconnect_attempts

\* a classification was made in this step
Classifies == system_data' # system_data \/ verdict' # verdict

\* C34: determine_status never raises: every call returns one of the five
\* severities and leaves the thresholds unchanged; a last_seen that cannot be
\* compared with the current time, and a threshold key that is missing when a
\* healthy, fresh sample is classified, yield "grey".
C34_ClassifierNeverRaises ==
    [][Classifies =>
         /\ verdict' \in Severities
         /\ criteria' = criteria
         /\ system_data'.last_seen = Incomparable => verdict' = "grey"
         /\ (system_data'.last_seen = clock /\ system_data'.data = HealthyData) =>
               verdict' = IF Complete(criteria) THEN "green" ELSE "grey"]_vars

\* a fresh, healthy sample was classified "grey" and the thresholds lack a key
C34_Witness ==
    /\ verdict = "grey"
    /\ system_data.last_seen = clock
    /\ system_data.data = HealthyData
    /\ ~Complete(criteria)

\* the collector has classified a sample
Sampled == collector.status # "none"

Reading(key) == Get(collector.sensor_data, key)

\* C35: determine_machine_status treats a reading equal to a bound as not
\* breaching it: a sample is "red" only when temperature or pressure exceeds
\* its critical bound and, at normal speed, "yellow" only when one exceeds its
\* warning bound; at normal speed the verdict is the server classifier's.
C35_CollectorBoundsAreStrict ==
    Sampled =>
        /\ collector.status = "red" <=>
              \/ Reading("temperature") > TEMPERATURE_CRITICAL
              \/ Reading("pressure") > PRESSURE_CRITICAL
        /\ Reading("speed") >= SPEED_MINIMUM =>
              /\ collector.status = "yellow" <=>
                    /\ collector.status # "red"
                    /\ \/ Reading("temperature") > TEMPERATURE_WARNING
                       \/ Reading("pressure") > PRESSURE_WARNING
              /\ collector.status =
                    determine_status([last_seen |-> clock, data |-> collector.sensor_data],
                                     clock, DefaultCriteria)

\* C36: determine_machine_status returns "black" for a sample whose speed is 0
\* and whose temperature and pressure are below their warning bounds.
C36_StoppedMachineIsBlack ==
    ( /\ Sampled
      /\ Reading("speed") = 0
      /\ Reading("temperature") < TEMPERATURE_WARNING
      /\ Reading("pressure") < PRESSURE_WARNING )
    => collector.status = "black"

\* the number of failed sends at the end of the log
RECURSIVE Streak(_)
Streak(results) ==
    IF results = <<>> \/ results[Len(results)] THEN 0
    ELSE 1 + Streak(SubSeq(results, 1, Len(results) - 1))

\* C37: the failure counter is the number of consecutive failed sends (every
\* successful send resets it) and never exceeds RETRY_ATTEMPTS; the loop has
\* stopped by itself exactly when RETRY_ATTEMPTS sends in a row have failed,
\* and after a failed connection test no send is attempted. (A stop by
\* KeyboardInterrupt is the user's and not the loop's.)
C37_StopsAfterConsecutiveFailures ==
    /\ collector.consecutive_failures = Streak(collector.results)
    /\ collector.consecutive_failures <= RETRY_ATTEMPTS
    /\ collector.pc = "stopped" <=> Streak(collector.results) >= RETRY_ATTEMPTS
    /\ collector.pc = "no_api" => collector.results = <<>>

\* the loop went on after a failure and a success that reset the counter, and
\* stopped after three more failures in a row
C37_Witness ==
    /\ collector.pc = "stopped"
    /\ \E i, j \in 1..Len(collector.results) :
          i < j /\ ~collector.results[i] /\ collector.results[j]
====
